---- MODULE Spec2Model ----
(***************************************************************************)
(* kv-cmd: a line-oriented REPL over an in-memory key/value map with       *)
(* nested transactions (src/main.go).                                      *)
(*                                                                         *)
(* Text is modelled as sequences of one-character strings, so that         *)
(* strings.ToUpper and strings.Fields are computed, not assumed.  A map    *)
(* variable is modelled by the contents of the map it refers to: the only  *)
(* time two variables refer to one map object is during the call           *)
(* parseTransaction(kvStore), and kvStore is only read by the copy loop at *)
(* function entry.  The nil map returned by ABORT is kept apart from an    *)
(* empty map by an explicit flag.                                          *)
(***************************************************************************)
EXTENDS Integers, Sequences, FiniteSets, TLC

\* ------------------------------------------------------------------ bounds
\* Deepest transaction nesting explored (the recursion itself is unbounded).
MaxDepth == 2
\* Most lines one read of a piped standard input hands to a scanner.
MaxChunk == 2
\* Number of lines a piped standard input holds before its end.
MaxPipeLines == 4

\* ------------------------------------------------------- program constants
PROMPT == "> "
READ   == <<"R","E","A","D">>
WRITE  == <<"W","R","I","T","E">>
DELETE == <<"D","E","L","E","T","E">>
QUIT   == <<"Q","U","I","T">>
START  == <<"S","T","A","R","T">>
COMMIT == <<"C","O","M","M","I","T">>
ABORT  == <<"A","B","O","R","T">>
\* The usage banner, abbreviated.
USAGE  == <<"U","S","A","G","E">>

\* The empty Go string.
Empty == <<>>

\* ------------------------------------------------------------ text helpers
LowerCase == <<"a","b","c","d","e","f","g","h","i","j","k","l","m",
               "n","o","p","q","r","s","t","u","v","w","x","y","z">>
UpperCase == <<"A","B","C","D","E","F","G","H","I","J","K","L","M",
               "N","O","P","Q","R","S","T","U","V","W","X","Y","Z">>

\* unicode.ToUpper on one ASCII character.
ToUpperChar(c) ==
    IF \E i \in DOMAIN LowerCase : LowerCase[i] = c
    THEN UpperCase[CHOOSE i \in DOMAIN LowerCase : LowerCase[i] = c]
    ELSE c

\* strings.ToUpper.
ToUpper(s) == [i \in DOMAIN s |-> ToUpperChar(s[i])]

\* unicode.IsSpace on the ASCII characters.
IsSpace(c) == c \in {" ", "\t", "\n", "\r", "\f"}

\* strings.Fields: the maximal runs of non-space characters, in order.
RECURSIVE FieldsFrom(_, _, _)
FieldsFrom(s, i, word) ==
    IF i > Len(s)
    THEN IF word = <<>> THEN <<>> ELSE <<word>>
    ELSE IF IsSpace(s[i])
         THEN IF word = <<>>
              THEN FieldsFrom(s, i + 1, <<>>)
              ELSE <<word>> \o FieldsFrom(s, i + 1, <<>>)
         ELSE FieldsFrom(s, i + 1, Append(word, s[i]))

Fields(s) == FieldsFrom(s, 1, <<>>)

\* ----------------------------------------------------------- preProcessInput
\* The error values: nil, and the texts of the two fmt.Errorf formats.
ErrNil      == "<nil>"
ErrNoWords  == "Error: expected at least one command: "
ErrTooMany  == "Error: too many arguments: "

\* Mutant: the upper limit on the word count off by one.
preProcessInputTooManyAt4(words) ==
    IF Len(words) < 1
    THEN [cmd |-> Empty, key |-> Empty, value |-> Empty, err |-> ErrNoWords]
    ELSE IF Len(words) > 4
    THEN [cmd |-> Empty, key |-> Empty, value |-> Empty, err |-> ErrTooMany]
    ELSE [cmd   |-> ToUpper(words[1]),
          key   |-> IF Len(words) > 1 THEN words[2] ELSE Empty,
          value |-> IF Len(words) > 2 THEN words[3] ELSE Empty,
          err   |-> ErrNil]

\* Mutant: the command word is not upper-cased.
preProcessInputNoUpper(words) ==
    IF Len(words) < 1
    THEN [cmd |-> Empty, key |-> Empty, value |-> Empty, err |-> ErrNoWords]
    ELSE IF Len(words) > 3
    THEN [cmd |-> Empty, key |-> Empty, value |-> Empty, err |-> ErrTooMany]
    ELSE [cmd   |-> words[1],
          key   |-> IF Len(words) > 1 THEN words[2] ELSE Empty,
          value |-> IF Len(words) > 2 THEN words[3] ELSE Empty,
          err   |-> ErrNil]

preProcessInput(words) ==
    IF Len(words) < 1
    THEN [cmd |-> Empty, key |-> Empty, value |-> Empty, err |-> ErrNoWords]
    ELSE IF Len(words) > 3
    THEN [cmd |-> Empty, key |-> Empty, value |-> Empty, err |-> ErrTooMany]
    ELSE [cmd   |-> ToUpper(words[1]),
          key   |-> IF Len(words) > 1 THEN words[2] ELSE Empty,
          value |-> IF Len(words) > 2 THEN words[3] ELSE Empty,
          err   |-> ErrNil]

\* ------------------------------------------------------------- map helpers
\* make(map[string]string)
EmptyMap == <<>>

\* Mutant: an existing entry is not overwritten.
MapSetIfAbsent(m, k, v) == [x \in (DOMAIN m) \cup {k} |-> IF x \in DOMAIN m THEN m[x] ELSE v]

\* m[k] = v
MapSet(m, k, v) == [x \in (DOMAIN m) \cup {k} |-> IF x = k THEN v ELSE m[x]]

\* Mutant: delete drops every entry.
MapDeleteAll(m, k) == EmptyMap

\* delete(m, k)
MapDelete(m, k) == [x \in (DOMAIN m) \ {k} |-> m[x]]

\* _, ok := m[k]
Has(m, k) == k \in DOMAIN m

\* Mutant: the working copy starts empty, the copy loop left out.
CopyStoreNothing(kvStore) == EmptyMap

\* The copy loop at the head of parseTransaction.
CopyStore(kvStore) == [k \in DOMAIN kvStore |-> kvStore[k]]

\* A map-typed return value: nil, or a reference to a map with contents m.
NilMap == [nil |-> TRUE, m |-> EmptyMap]
Ref(m) == [nil |-> FALSE, m |-> m]

\* ------------------------------------------------------------------- state
VARIABLES
    store,      \* the package-level map: the root store (contents)
    scanner,    \* parentTransaction's scanner: lines read ahead, not yet returned
    frames,     \* the active parseTransaction calls, outermost first; each
                \*   [kvStore: the argument's contents at the call,
                \*    tranStore: the working copy, scanner: its own read-ahead]
    stdin,      \* what standard input is: "terminal" or "pipe"
    pipeLeft,   \* lines a piped standard input can still deliver
    input,      \* the lines a piped standard input has delivered, in stream order
    done,       \* how many lines of a piped standard input have been processed
    out,        \* what the last loop iteration wrote, in order
    status,     \* "running" or "exited"
    exitCode,   \* the argument of os.Exit; -1 while running
    last        \* the line the last loop iteration consumed, and at which depth

vars == <<store, scanner, frames, stdin, pipeLeft, input, done, out, status, exitCode, last>>

\* -------------------------------------------------------------- input lines
ka == <<"a">>
kb == <<"b">>
vx == <<"x">>
vy == <<"y">>

\* A line holding the given words, separated by single blanks.
RECURSIVE Line(_)
Line(ws) ==
    IF ws = <<>> THEN <<>>
    ELSE IF Len(ws) = 1 THEN ws[1]
    ELSE ws[1] \o <<" ">> \o Line(Tail(ws))

\* Lines typed at a terminal.
TermLines ==
    { Line(<<READ, ka>>),
      Line(<<READ, kb>>),
      Line(<<WRITE, ka, vx>>),
      Line(<<<<"w","r","i","t","e">>, ka, vx>>),
      Line(<<WRITE, ka, vy>>),
      Line(<<DELETE, ka>>),
      Line(<<START>>),
      Line(<<<<"c","o","m","m","i","t">>>>),
      Line(<<ABORT>>),
      Line(<<<<"Q","u","i","t">>>>),
      <<>>,
      <<" ", "\t">>,
      <<" ">> \o Line(<<<<"R","e","a","d">>, ka>>) \o <<" ", " ">>,
      Line(<<WRITE, ka, vx, vy>>),
      Line(<<<<"F","O","O">>>>),
      Line(<<WRITE, kb>>),
      Line(<<READ>>),
      Line(<<WRITE>>),
      Line(<<COMMIT, vx>>),
      Line(<<START, ka, kb>>),
      Line(<<QUIT, vx>>),
      Line(<<DELETE, ka, vx>>),
      Line(<<<<"r","e","a","d">>, ka>>),
      Line(<<<<"W","r","i","t","e">>, ka, vx>>),
      Line(<<<<"d","e","l","e","t","e">>, ka>>),
      Line(<<<<"S","t","a","r","t">>>>),
      Line(<<COMMIT>>),
      Line(<<<<"a","b","o","r","t">>>>),
      Line(<<QUIT>>) }

\* Lines a piped standard input may hold.
PipeLines ==
    { Line(<<READ, ka>>),
      Line(<<WRITE, ka, vx>>),
      Line(<<DELETE, ka>>),
      Line(<<START>>),
      Line(<<COMMIT>>),
      Line(<<ABORT>>) }

\* The sequences over S of length 1..n.
SeqsUpTo(S, n) == UNION { [1..k -> S] : k \in 1..n }

Min(a, b) == IF a < b THEN a ELSE b

\* What one read of standard input can hand to a scanner: a terminal hands
\* over one line per read, a pipe whatever it holds, up to MaxChunk lines.
Chunks ==
    IF stdin = "terminal"
    THEN { <<l>> : l \in TermLines }
    ELSE SeqsUpTo(PipeLines, Min(MaxChunk, pipeLeft))

\* ------------------------------------------------------------ interpreter
Depth == Len(frames)

\* The store commands at depth d apply to.
StoreAt(d) == IF d = 0 THEN store ELSE frames[d].tranStore

\* The scanner of the running loop.
CurScanner == IF Depth = 0 THEN scanner ELSE frames[Depth].scanner

\* scanner.Scan() succeeding: the next line comes from the scanner's own
\* read-ahead if it holds one, else from a fresh read of standard input.
Reads ==
    IF CurScanner # <<>>
    THEN { [line |-> Head(CurScanner), rest |-> Tail(CurScanner), chunk |-> <<>>] }
    ELSE { [line |-> Head(c), rest |-> Tail(c), chunk |-> c] : c \in Chunks }

\* words := strings.Fields(scanner.Text()); preProcessInput(words),
\* tabulated once over the input lines.
ParseTable == [l \in TermLines \cup PipeLines |-> preProcessInput(Fields(l))]

Parse(line) == ParseTable[line]

Emit(fd, msg, arg) == [fd |-> fd, msg |-> msg, arg |-> arg]

\* fmt.Print(PROMPT)
Prompt == Emit("stdout", PROMPT, Empty)

\* log(err)
Log(msg, arg) == Emit("stderr", msg, arg)

\* Bookkeeping of a successful Scan at the current depth.
Consume(r) ==
    /\ last' = [kind |-> "line", line |-> r.line, depth |-> Depth]
    /\ pipeLeft' = IF stdin = "pipe" THEN pipeLeft - Len(r.chunk) ELSE pipeLeft
    /\ input' = IF stdin = "pipe" THEN input \o r.chunk ELSE input
    /\ done' = IF stdin = "pipe" THEN done + 1 ELSE done
    /\ UNCHANGED stdin

NoLine == [kind |-> "none", line |-> Empty, depth |-> 0]

Init ==
    /\ store = EmptyMap
    /\ scanner = <<>>
    /\ frames = <<>>
    /\ stdin \in {"terminal", "pipe"}
    /\ pipeLeft = MaxPipeLines
    /\ input = <<>>
    /\ done = 0
    /\ out = <<>>
    /\ status = "running"
    /\ exitCode = -1
    /\ last = NoLine

\* ---------------------------------------------- parentTransaction (depth 0)
Running0 == status = "running" /\ Depth = 0

\* scanner.Scan() fails: exitLog.
ParentReadFail ==
    /\ Running0
    /\ scanner = <<>>
    /\ out' = <<Prompt, Log("Error reading standard input: ", Empty)>>
    /\ status' = "exited"
    /\ exitCode' = 1
    /\ last' = [kind |-> "eof", line |-> Empty, depth |-> 0]
    /\ UNCHANGED <<store, scanner, frames, stdin, pipeLeft, input, done>>

ParentErr ==
    /\ Running0
    /\ \E r \in Reads :
        LET p == Parse(r.line) IN
        /\ p.err # ErrNil
        /\ out' = <<Prompt, Log(p.err, USAGE)>>
        /\ scanner' = r.rest
        /\ Consume(r)
        /\ UNCHANGED <<store, frames, status, exitCode>>

ParentRead ==
    /\ Running0
    /\ \E r \in Reads :
        LET p == Parse(r.line) IN
        /\ p.err = ErrNil
        /\ p.cmd = READ
        /\ out' = IF Has(store, p.key)
                  THEN <<Prompt, Emit("stdout", "", store[p.key])>>
                  ELSE <<Prompt, Log("Key not found: ", p.key)>>
        /\ scanner' = r.rest
        /\ Consume(r)
        /\ UNCHANGED <<store, frames, status, exitCode>>

ParentWrite ==
    /\ Running0
    /\ \E r \in Reads :
        LET p == Parse(r.line) IN
        /\ p.err = ErrNil
        /\ p.cmd = WRITE
        /\ store' = MapSet(store, p.key, p.value)
        /\ out' = <<Prompt>>
        /\ scanner' = r.rest
        /\ Consume(r)
        /\ UNCHANGED <<frames, status, exitCode>>

ParentDelete ==
    /\ Running0
    /\ \E r \in Reads :
        LET p == Parse(r.line) IN
        /\ p.err = ErrNil
        /\ p.cmd = DELETE
        /\ IF Has(store, p.key)
           THEN /\ store' = MapDelete(store, p.key)
                /\ out' = <<Prompt>>
           ELSE /\ store' = store
                /\ out' = <<Prompt, Log("Key not found: ", p.key)>>
        /\ scanner' = r.rest
        /\ Consume(r)
        /\ UNCHANGED <<frames, status, exitCode>>

ParentQuit ==
    /\ Running0
    /\ \E r \in Reads :
        LET p == Parse(r.line) IN
        /\ p.err = ErrNil
        /\ p.cmd = QUIT
        /\ out' = <<Prompt, Emit("stdout", "Exiting...", Empty)>>
        /\ status' = "exited"
        /\ exitCode' = 0
        /\ scanner' = r.rest
        /\ Consume(r)
        /\ UNCHANGED <<store, frames>>

\* The entry of parseTransaction(kvStore): a working copy and a new scanner.
NewFrame(kvStore) ==
    [kvStore |-> kvStore, tranStore |-> CopyStore(kvStore), scanner |-> <<>>]

ParentStart ==
    /\ Running0
    /\ Depth < MaxDepth
    /\ \E r \in Reads :
        LET p == Parse(r.line) IN
        /\ p.err = ErrNil
        /\ p.cmd = START
        /\ frames' = <<NewFrame(store)>>
        /\ out' = <<Prompt>>
        /\ scanner' = r.rest
        /\ Consume(r)
        /\ UNCHANGED <<store, status, exitCode>>

\* Mutant: COMMIT at depth 0 is fatal (exitLog in place of log).
ParentCommitExits ==
    /\ Running0
    /\ \E r \in Reads :
        LET p == Parse(r.line) IN
        /\ p.err = ErrNil
        /\ p.cmd = COMMIT
        /\ out' = <<Prompt, Log("Error: you are not currently in a transaction", Empty)>>
        /\ status' = "exited"
        /\ exitCode' = 1
        /\ scanner' = r.rest
        /\ Consume(r)
        /\ UNCHANGED <<store, frames>>

ParentCommit ==
    /\ Running0
    /\ \E r \in Reads :
        LET p == Parse(r.line) IN
        /\ p.err = ErrNil
        /\ p.cmd = COMMIT
        /\ out' = <<Prompt, Log("Error: you are not currently in a transaction", Empty)>>
        /\ scanner' = r.rest
        /\ Consume(r)
        /\ UNCHANGED <<store, frames, status, exitCode>>

\* Mutant: ABORT at depth 0 empties the root store.
ParentAbortResets ==
    /\ Running0
    /\ \E r \in Reads :
        LET p == Parse(r.line) IN
        /\ p.err = ErrNil
        /\ p.cmd = ABORT
        /\ store' = EmptyMap
        /\ out' = <<Prompt, Log("Error: you are not currently in a transaction", Empty)>>
        /\ scanner' = r.rest
        /\ Consume(r)
        /\ UNCHANGED <<frames, status, exitCode>>

ParentAbort ==
    /\ Running0
    /\ \E r \in Reads :
        LET p == Parse(r.line) IN
        /\ p.err = ErrNil
        /\ p.cmd = ABORT
        /\ out' = <<Prompt, Log("Error: you are not currently in a transaction", Empty)>>
        /\ scanner' = r.rest
        /\ Consume(r)
        /\ UNCHANGED <<store, frames, status, exitCode>>

Commands == {READ, WRITE, DELETE, QUIT, START, COMMIT, ABORT}

ParentDefault ==
    /\ Running0
    /\ \E r \in Reads :
        LET p == Parse(r.line) IN
        /\ p.err = ErrNil
        /\ p.cmd \notin Commands
        /\ out' = <<Prompt, Log("Unrecognized command: ", p.cmd)>>
        /\ scanner' = r.rest
        /\ Consume(r)
        /\ UNCHANGED <<store, frames, status, exitCode>>

\* ---------------------------------------------- parseTransaction (depth > 0)
RunningN == status = "running" /\ Depth > 0

\* The frame of the running parseTransaction call, with its scanner advanced.
Top(rest) == [frames[Depth] EXCEPT !.scanner = rest]

\* Mutants: the nil check left out; the synchronisation left out.
ParentSyncAlways(cur, transaction) == transaction.m

ParentSyncNever(cur, transaction) == cur

\* Mutant: an empty returned map is taken for an abort.
ParentSyncNonEmpty(cur, transaction) ==
    IF ~transaction.nil /\ transaction.m # EmptyMap THEN transaction.m ELSE cur

\* The caller's START case once the call returns: in parentTransaction ...
ParentSync(cur, transaction) ==
    IF ~transaction.nil THEN transaction.m ELSE cur

\* ... and in parseTransaction.
TranSync(cur, transaction) ==
    IF ~transaction.nil THEN transaction.m ELSE cur

\* return transaction: the call ends, its scanner and what it had read ahead
\* are dropped, and the caller's START case goes on with the returned value.
Return(transaction) ==
    IF Depth = 1
    THEN /\ store' = ParentSync(store, transaction)
         /\ frames' = <<>>
         /\ UNCHANGED scanner
    ELSE /\ frames' = [SubSeq(frames, 1, Depth - 1) EXCEPT
                          ![Depth - 1].tranStore = TranSync(@, transaction)]
         /\ UNCHANGED <<store, scanner>>

\* Mutant: a failed read unwinds the open transactions before exiting.
TranReadFailUnwinds ==
    /\ RunningN
    /\ CurScanner = <<>>
    /\ out' = <<Prompt, Log("Error reading standard input: ", Empty)>>
    /\ status' = "exited"
    /\ exitCode' = 1
    /\ frames' = <<>>
    /\ last' = [kind |-> "eof", line |-> Empty, depth |-> Depth]
    /\ UNCHANGED <<store, scanner, stdin, pipeLeft, input, done>>

TranReadFail ==
    /\ RunningN
    /\ CurScanner = <<>>
    /\ out' = <<Prompt, Log("Error reading standard input: ", Empty)>>
    /\ status' = "exited"
    /\ exitCode' = 1
    /\ last' = [kind |-> "eof", line |-> Empty, depth |-> Depth]
    /\ UNCHANGED <<store, scanner, frames, stdin, pipeLeft, input, done>>

TranErr ==
    /\ RunningN
    /\ \E r \in Reads :
        LET p == Parse(r.line) IN
        /\ p.err # ErrNil
        /\ out' = <<Prompt, Log(p.err, USAGE)>>
        /\ frames' = [frames EXCEPT ![Depth] = Top(r.rest)]
        /\ Consume(r)
        /\ UNCHANGED <<store, scanner, status, exitCode>>

TranRead ==
    /\ RunningN
    /\ \E r \in Reads :
        LET p == Parse(r.line)
            tranStore == frames[Depth].tranStore
        IN
        /\ p.err = ErrNil
        /\ p.cmd = READ
        /\ out' = IF Has(tranStore, p.key)
                  THEN <<Prompt, Emit("stdout", "", tranStore[p.key])>>
                  ELSE <<Prompt, Log("Key not found: ", p.key)>>
        /\ frames' = [frames EXCEPT ![Depth] = Top(r.rest)]
        /\ Consume(r)
        /\ UNCHANGED <<store, scanner, status, exitCode>>

\* Mutant: the working copy shares its storage with the caller's store, so
\* a write shows in both.
TranWriteThrough ==
    /\ RunningN
    /\ \E r \in Reads :
        LET p == Parse(r.line)
            tranStore == frames[Depth].tranStore
            written == [frames EXCEPT ![Depth] =
                          [Top(r.rest) EXCEPT !.tranStore = MapSet(tranStore, p.key, p.value)]]
        IN
        /\ p.err = ErrNil
        /\ p.cmd = WRITE
        /\ IF Depth = 1
           THEN /\ frames' = written
                /\ store' = MapSet(store, p.key, p.value)
           ELSE /\ frames' = [written EXCEPT ![Depth - 1].tranStore = MapSet(@, p.key, p.value)]
                /\ store' = store
        /\ out' = <<Prompt>>
        /\ Consume(r)
        /\ UNCHANGED <<scanner, status, exitCode>>

TranWrite ==
    /\ RunningN
    /\ \E r \in Reads :
        LET p == Parse(r.line)
            tranStore == frames[Depth].tranStore
        IN
        /\ p.err = ErrNil
        /\ p.cmd = WRITE
        /\ frames' = [frames EXCEPT ![Depth] =
                        [Top(r.rest) EXCEPT !.tranStore = MapSet(tranStore, p.key, p.value)]]
        /\ out' = <<Prompt>>
        /\ Consume(r)
        /\ UNCHANGED <<store, scanner, status, exitCode>>

\* Mutant: delete without looking the key up first, so nothing is logged.
TranDeleteUnchecked ==
    /\ RunningN
    /\ \E r \in Reads :
        LET p == Parse(r.line)
            tranStore == frames[Depth].tranStore
        IN
        /\ p.err = ErrNil
        /\ p.cmd = DELETE
        /\ frames' = [frames EXCEPT ![Depth] =
                        [Top(r.rest) EXCEPT !.tranStore = MapDelete(tranStore, p.key)]]
        /\ out' = <<Prompt>>
        /\ Consume(r)
        /\ UNCHANGED <<store, scanner, status, exitCode>>

TranDelete ==
    /\ RunningN
    /\ \E r \in Reads :
        LET p == Parse(r.line)
            tranStore == frames[Depth].tranStore
        IN
        /\ p.err = ErrNil
        /\ p.cmd = DELETE
        /\ IF Has(tranStore, p.key)
           THEN /\ frames' = [frames EXCEPT ![Depth] =
                                [Top(r.rest) EXCEPT !.tranStore = MapDelete(tranStore, p.key)]]
                /\ out' = <<Prompt>>
           ELSE /\ frames' = [frames EXCEPT ![Depth] = Top(r.rest)]
                /\ out' = <<Prompt, Log("Key not found: ", p.key)>>
        /\ Consume(r)
        /\ UNCHANGED <<store, scanner, status, exitCode>>

\* Mutant: QUIT commits the running transaction on its way out.
TranQuitCommits ==
    /\ RunningN
    /\ \E r \in Reads :
        LET p == Parse(r.line) IN
        /\ p.err = ErrNil
        /\ p.cmd = QUIT
        /\ out' = <<Prompt, Emit("stdout", "Exiting...", Empty)>>
        /\ status' = "exited"
        /\ exitCode' = 0
        /\ Return(Ref(frames[Depth].tranStore))
        /\ Consume(r)

TranQuit ==
    /\ RunningN
    /\ \E r \in Reads :
        LET p == Parse(r.line) IN
        /\ p.err = ErrNil
        /\ p.cmd = QUIT
        /\ out' = <<Prompt, Emit("stdout", "Exiting...", Empty)>>
        /\ status' = "exited"
        /\ exitCode' = 0
        /\ frames' = [frames EXCEPT ![Depth] = Top(r.rest)]
        /\ Consume(r)
        /\ UNCHANGED <<store, scanner>>

TranStart ==
    /\ RunningN
    /\ Depth < MaxDepth
    /\ \E r \in Reads :
        LET p == Parse(r.line) IN
        /\ p.err = ErrNil
        /\ p.cmd = START
        /\ frames' = Append([frames EXCEPT ![Depth] = Top(r.rest)],
                            NewFrame(frames[Depth].tranStore))
        /\ out' = <<Prompt>>
        /\ Consume(r)
        /\ UNCHANGED <<store, scanner, status, exitCode>>

TranCommit ==
    /\ RunningN
    /\ \E r \in Reads :
        LET p == Parse(r.line) IN
        /\ p.err = ErrNil
        /\ p.cmd = COMMIT
        /\ Return(Ref(frames[Depth].tranStore))
        /\ out' = <<Prompt>>
        /\ Consume(r)
        /\ UNCHANGED <<status, exitCode>>

\* Mutant: ABORT gives up every open transaction, not only the innermost.
TranAbortAll ==
    /\ RunningN
    /\ \E r \in Reads :
        LET p == Parse(r.line) IN
        /\ p.err = ErrNil
        /\ p.cmd = ABORT
        /\ frames' = <<>>
        /\ out' = <<Prompt>>
        /\ Consume(r)
        /\ UNCHANGED <<store, scanner, status, exitCode>>

TranAbort ==
    /\ RunningN
    /\ \E r \in Reads :
        LET p == Parse(r.line) IN
        /\ p.err = ErrNil
        /\ p.cmd = ABORT
        /\ Return(NilMap)
        /\ out' = <<Prompt>>
        /\ Consume(r)
        /\ UNCHANGED <<status, exitCode>>

TranDefault ==
    /\ RunningN
    /\ \E r \in Reads :
        LET p == Parse(r.line) IN
        /\ p.err = ErrNil
        /\ p.cmd \notin Commands
        /\ out' = <<Prompt, Log("Unrecognized command: ", p.cmd)>>
        /\ frames' = [frames EXCEPT ![Depth] = Top(r.rest)]
        /\ Consume(r)
        /\ UNCHANGED <<store, scanner, status, exitCode>>

\* ------------------------------------------------------------ specification
Next ==
    \/ ParentReadFail
    \/ ParentErr
    \/ ParentRead
    \/ ParentWrite
    \/ ParentDelete
    \/ ParentQuit
    \/ ParentStart
    \/ ParentCommit
    \/ ParentAbort
    \/ ParentDefault
    \/ TranReadFail
    \/ TranErr
    \/ TranRead
    \/ TranWrite
    \/ TranDelete
    \/ TranQuit
    \/ TranStart
    \/ TranCommit
    \/ TranAbort
    \/ TranDefault

Spec == Init /\ [][Next]_vars

\* ---------------------------------------------------------------- properties
\* The stores of all active depths, root first.
Stores == [d \in 0..Depth |-> StoreAt(d)]

\* The parsed form and the token count of a consumed line.
Cmd(l)   == Parse(l.line).cmd
Key(l)   == Parse(l.line).key
Value(l) == Parse(l.line).value
NTok(l)  == Len(Fields(l.line))
IsLine(l) == l.kind = "line"

NotInTransaction == Log("Error: you are not currently in a transaction", Empty)

\* C1: when ABORT is processed at depth n+1 >= 1, whatever was done inside the
\* transaction, the depth drops to n and the store at depth n is exactly the
\* store depth n held when START was issued (the argument of the call).
C1_AbortRestoresParent ==
    [][ (IsLine(last') /\ Cmd(last') = ABORT /\ Depth >= 1)
        => /\ Depth' = Depth - 1
           /\ \A n \in {Depth - 1} : StoreAt(n)' = frames[n + 1].kvStore ]_vars

\* C1 witness: an ABORT at depth 2 has just returned to a depth-1 transaction
\* whose store is not empty and differs from the root's.
C1_Witness ==
    /\ IsLine(last) /\ Cmd(last) = ABORT /\ last.depth = 2
    /\ Depth = 1
    /\ StoreAt(1) # EmptyMap
    /\ StoreAt(1) # store

\* C2: when COMMIT is processed at depth n+1 >= 1, the depth drops to n and the
\* store at depth n becomes exactly the store depth n+1 held at the COMMIT.
C2_CommitReplacesParent ==
    [][ (IsLine(last') /\ Cmd(last') = COMMIT /\ Depth >= 1)
        => /\ Depth' = Depth - 1
           /\ \A n \in {Depth - 1} : StoreAt(n)' = StoreAt(n + 1) ]_vars

\* C2 witness: a COMMIT at depth 2 has just changed the depth-1 store, which
\* now differs from what depth 1 started with.
C2_Witness ==
    /\ IsLine(last) /\ Cmd(last) = COMMIT /\ last.depth = 2
    /\ Depth = 1
    /\ StoreAt(1) # frames[1].kvStore

\* C3: while a transaction is open, the store of an ancestor depth d changes
\* in a step only if that step is a COMMIT processed at depth d+1; no WRITE or
\* DELETE at a deeper depth changes it.
C3_Isolation ==
    [][ \A d \in 0..(Depth - 1) :
          (StoreAt(d)' # StoreAt(d))
          => (IsLine(last') /\ Cmd(last') = COMMIT /\ Depth = d + 1) ]_vars

\* C3 witness: a WRITE or DELETE at depth 2 has made the depth-2 store differ
\* from the depth-1 store, which is still what it was at START.
C3_Witness ==
    /\ IsLine(last) /\ Cmd(last) \in {WRITE, DELETE} /\ last.depth = 2
    /\ Depth = 2
    /\ StoreAt(2) # StoreAt(1)
    /\ StoreAt(1) = frames[2].kvStore

\* C4: a three-token WRITE k v immediately followed, at the same depth, by
\* READ k prints v on standard output.
C4_ReadYourWrite ==
    [][ ( /\ IsLine(last) /\ Cmd(last) = WRITE /\ NTok(last) = 3
          /\ IsLine(last') /\ Cmd(last') = READ /\ NTok(last') = 2
          /\ Key(last') = Key(last)
          /\ last'.depth = last.depth )
        => out' = <<Prompt, Emit("stdout", "", Value(last))>> ]_vars

\* C4 witness: READ a at depth 1 has printed y while the root holds another
\* value for a.
C4_Witness ==
    /\ IsLine(last) /\ Cmd(last) = READ /\ Key(last) = ka /\ last.depth = 1
    /\ out = <<Prompt, Emit("stdout", "", vy)>>
    /\ Has(store, ka) /\ store[ka] = vx

\* C5: COMMIT or ABORT processed at depth 0 logs the not-in-a-transaction
\* diagnostic, leaves the root store as it was, stays at depth 0 and keeps
\* the loop running.
C5_RootCommitAbort ==
    [][ (IsLine(last') /\ Cmd(last') \in {COMMIT, ABORT} /\ Depth = 0)
        => /\ out' = <<Prompt, NotInTransaction>>
           /\ store' = store
           /\ Depth' = 0
           /\ status' = "running" ]_vars

\* C5 witness: ABORT was processed at depth 0 with a non-empty root store.
C5_Witness ==
    /\ IsLine(last) /\ Cmd(last) = ABORT /\ last.depth = 0
    /\ Depth = 0
    /\ store # EmptyMap
    /\ out = <<Prompt, NotInTransaction>>
    /\ status = "running"

\* The diagnostics of preProcessInput.
ArityDiagnostics == { Log(ErrNoWords, USAGE), Log(ErrTooMany, USAGE) }

\* C6 (as claimed): a WRITE line of fewer than three tokens, or a READ line of
\* one token, logs an arity diagnostic and leaves the current store unchanged.
C6_TooFewRejected ==
    [][ ( /\ IsLine(last')
          /\ \/ Cmd(last') = WRITE /\ NTok(last') < 3
             \/ Cmd(last') = READ /\ NTok(last') = 1 )
        => /\ \E i \in DOMAIN out' : out'[i] \in ArityDiagnostics
           /\ Depth' = Depth
           /\ \A n \in {Depth} : StoreAt(n)' = StoreAt(n) ]_vars

\* C7: a line of zero tokens, of more than three tokens, or whose command word
\* is not a known command logs one error and changes no store and not the
\* depth; the loop keeps running.
C7_RejectedLinesChangeNothing ==
    [][ ( /\ IsLine(last')
          /\ \/ NTok(last') = 0
             \/ NTok(last') > 3
             \/ Cmd(last') \notin Commands )
        => /\ Len(out') = 2 /\ out'[2].fd = "stderr"
           /\ Depth' = Depth
           /\ Stores' = Stores
           /\ status' = "running" ]_vars

\* C7 witness: a four-token line was rejected at depth 2 over non-empty stores.
C7_Witness ==
    /\ IsLine(last) /\ NTok(last) > 3 /\ last.depth = 2
    /\ Depth = 2
    /\ out = <<Prompt, Log(ErrTooMany, USAGE)>>
    /\ StoreAt(2) # EmptyMap
    /\ status = "running"

\* C8: READ k or DELETE k for a key absent from the current store logs
\* "Key not found: k" and changes no store and not the depth.
C8_KeyNotFound ==
    [][ ( /\ IsLine(last') /\ Cmd(last') \in {READ, DELETE}
          /\ ~Has(StoreAt(Depth), Key(last')) )
        => /\ out' = <<Prompt, Log("Key not found: ", Key(last'))>>
           /\ Depth' = Depth
           /\ Stores' = Stores ]_vars

\* C8 witness: DELETE a at depth 1 reported a as not found although the root
\* store holds a.
C8_Witness ==
    /\ IsLine(last) /\ Cmd(last) = DELETE /\ Key(last) = ka /\ last.depth = 1
    /\ Depth = 1
    /\ out = <<Prompt, Log("Key not found: ", ka)>>
    /\ Has(store, ka)

\* C9: QUIT processed at any depth exits with status 0, changes no store and
\* unwinds nothing; once the process has exited nothing more happens.
C9_Quit ==
    [][ /\ (IsLine(last') /\ Cmd(last') = QUIT)
           => /\ status' = "exited" /\ exitCode' = 0
              /\ Depth' = Depth
              /\ Stores' = Stores
        /\ (status = "exited") => (vars' = vars) ]_vars

\* C9 witness: the process exited with status 0 from depth 2, the three stores
\* pairwise different.
C9_Witness ==
    /\ IsLine(last) /\ Cmd(last) = QUIT /\ last.depth = 2
    /\ status = "exited" /\ exitCode = 0
    /\ Depth = 2
    /\ StoreAt(2) # StoreAt(1)
    /\ StoreAt(1) # store

\* C10: a failed read at any depth exits with status 1 after logging to
\* standard error, with every store and the depth as they were.
C10_ReadFailure ==
    [][ (last'.kind = "eof" /\ status = "running")
        => /\ status' = "exited" /\ exitCode' = 1
           /\ out' = <<Prompt, Log("Error reading standard input: ", Empty)>>
           /\ Depth' = Depth
           /\ Stores' = Stores ]_vars

\* C10 witness: the read failed at depth 2, the three stores pairwise different.
C10_Witness ==
    /\ last.kind = "eof" /\ last.depth = 2
    /\ status = "exited" /\ exitCode = 1
    /\ Depth = 2
    /\ StoreAt(2) # StoreAt(1)
    /\ StoreAt(1) # store

\* Position i of line l lies in the line's first token.
InFirstToken(l, i) ==
    /\ ~IsSpace(l[i])
    /\ ~\E j, k \in 1..i : j < k /\ ~IsSpace(l[j]) /\ IsSpace(l[k])

\* Lines l1 and l2 differ at most in the letter case of the first token.
SameButCase(l1, l2) ==
    /\ Len(l1) = Len(l2)
    /\ \A i \in 1..Len(l1) :
          IF InFirstToken(l1, i)
          THEN InFirstToken(l2, i) /\ ToUpperChar(l1[i]) = ToUpperChar(l2[i])
          ELSE l1[i] = l2[i]

\* The other spellings of each terminal line whose first token is in upper
\* case; two lines are case variants of each other exactly when they are
\* spellings of the same upper-case line.
CaseVariants ==
    [l \in TermLines |->
        IF Fields(l) # <<>> /\ ToUpper(Fields(l)[1]) = Fields(l)[1]
        THEN { m \in TermLines : m # l /\ SameButCase(l, m) }
        ELSE {}]

\* What a loop iteration leaves behind, the consumed line's spelling aside.
Observable == <<Stores, Depth, out, status, exitCode>>

\* C11: at a terminal, whenever a line with an upper-case first token is
\* processed, every line that differs from it only in the letter case of its
\* first token could have been processed instead and would have left the same
\* stores, depth, output and exit status.
C11_CaseInsensitive ==
    [][ (stdin = "terminal" /\ IsLine(last'))
        => \A l2 \in CaseVariants[last'.line] :
             \E o \in {Observable'} :
               ENABLED (Next /\ IsLine(last') /\ last'.line = l2 /\ Observable' = o) ]_vars

\* C11 witness: WRITE a x, which has two other spellings among the lines, was
\* processed at depth 1 and stored x under a, which the root does not hold.
C11_Witness ==
    /\ IsLine(last) /\ last.line = Line(<<WRITE, ka, vx>>)
    /\ last.depth = 1 /\ Depth = 1
    /\ Has(StoreAt(1), ka) /\ StoreAt(1)[ka] = vx
    /\ ~Has(store, ka)
    /\ Cardinality(CaseVariants[last.line]) = 2

\* C12 (as claimed): with a piped standard input, the k-th line processed is
\* the k-th line of the stream, processed by the deepest active interpreter,
\* and when the input is exhausted every line delivered has been processed.
C12_LinesInOrder ==
    [][ /\ (stdin = "pipe" /\ IsLine(last'))
           => /\ last'.line = input'[done']
              /\ last'.depth = Depth
        /\ (stdin = "pipe" /\ last'.kind = "eof")
           => done' = Len(input') ]_vars

\* C13: the depth starts at 0; a processed START raises it by exactly 1, a
\* COMMIT or ABORT processed at depth > 0 lowers it by exactly 1, every other
\* line and a failed read leave it unchanged; and READ, WRITE and DELETE leave
\* the stores of all depths but the deepest as they were.
C13_DepthDiscipline ==
    [][ /\ IsLine(last') =>
            /\ Depth' =
                 IF Cmd(last') = START THEN Depth + 1
                 ELSE IF Cmd(last') \in {COMMIT, ABORT} /\ Depth > 0 THEN Depth - 1
                 ELSE Depth
            /\ Cmd(last') \in {READ, WRITE, DELETE}
                 => \A d \in 0..(Depth - 1) : StoreAt(d)' = StoreAt(d)
        /\ last'.kind = "eof" => Depth' = Depth
        /\ last.kind = "none" => Depth = 0 ]_vars

\* C13 witness: START was processed at depth 1 over a store that differs from
\* the root's; the depth is 2 and the new store equals the depth-1 store.
C13_Witness ==
    /\ IsLine(last) /\ Cmd(last) = START /\ last.depth = 1
    /\ Depth = 2
    /\ StoreAt(2) = StoreAt(1)
    /\ StoreAt(1) # store

\* What READ k writes when the current store is m.
ReadResult(m, k) ==
    IF Has(m, k)
    THEN <<Prompt, Emit("stdout", "", m[k])>>
    ELSE <<Prompt, Log("Key not found: ", k)>>

\* C14: a START processed at depth n leaves the store at depth n as it was and
\* gives depth n+1 a store with exactly the same key/value pairs; a READ k
\* processed right after it, at depth n+1, writes what READ k would have
\* written at depth n.
C14_StartSnapshots ==
    [][ /\ (IsLine(last') /\ Cmd(last') = START)
           => /\ Depth' = Depth + 1
              /\ \A n \in {Depth} : /\ StoreAt(n + 1)' = StoreAt(n)
                                    /\ StoreAt(n)' = StoreAt(n)
        /\ ( /\ IsLine(last) /\ Cmd(last) = START /\ Depth = last.depth + 1
             /\ IsLine(last') /\ Cmd(last') = READ )
           => out' = ReadResult(StoreAt(Depth - 1), Key(last')) ]_vars

\* C14 witness: START was processed at depth 0 over a root store of at least
\* two entries, and depth 1 holds the same entries.
C14_Witness ==
    /\ IsLine(last) /\ Cmd(last) = START /\ last.depth = 0
    /\ Depth = 1
    /\ Cardinality(DOMAIN store) >= 2
    /\ StoreAt(1) = store

\* The token count the usage banner gives each command.
RequiredTokens(cmd) ==
    IF cmd = WRITE THEN 3
    ELSE IF cmd \in {READ, DELETE} THEN 2
    ELSE 1

\* C15 (as claimed): a line whose command word is known but whose token count
\* is not the command's own starts, commits and aborts nothing, does not exit
\* and changes no store.
C15_OnlyAtRequiredCount ==
    [][ ( /\ IsLine(last')
          /\ Cmd(last') \in Commands
          /\ NTok(last') # RequiredTokens(Cmd(last')) )
        => /\ Depth' = Depth
           /\ Stores' = Stores
           /\ status' = "running" ]_vars

\* C16: the process exits only in a step that processes QUIT (status 0) or in
\* which the read fails (status 1); after any other line, at any depth, it is
\* still running.
C16_ExitsOnlyByQuitOrReadFailure ==
    [][ /\ (status = "running" /\ status' = "exited")
           => \/ IsLine(last') /\ Cmd(last') = QUIT /\ exitCode' = 0
              \/ last'.kind = "eof" /\ exitCode' = 1
        /\ (IsLine(last') /\ Cmd(last') # QUIT)
           => status' = "running" /\ exitCode' = -1 ]_vars

\* C16 witness: COMMIT was processed at depth 0 and the process is running.
C16_Witness ==
    /\ IsLine(last) /\ Cmd(last) = COMMIT /\ last.depth = 0
    /\ Depth = 0
    /\ status = "running" /\ exitCode = -1

\* Maps m1 and m2 agree on every key other than k.
SameExcept(m1, m2, k) ==
    /\ (DOMAIN m1) \ {k} = (DOMAIN m2) \ {k}
    /\ \A x \in (DOMAIN m1) \ {k} : m1[x] = m2[x]

\* C17: READ changes no store; a three-token WRITE k v sets k to v in the
\* current store and changes no other entry; DELETE k of a present key removes
\* k from the current store and changes no other entry; none of the three
\* changes the depth or the store of another depth.
C17_Frame ==
    [][ (IsLine(last') /\ Cmd(last') \in {READ, WRITE, DELETE}) =>
          /\ Depth' = Depth
          /\ \A d \in 0..(Depth - 1) : StoreAt(d)' = StoreAt(d)
          /\ \A n \in {Depth} :
               /\ Cmd(last') = READ => StoreAt(n)' = StoreAt(n)
               /\ (Cmd(last') = WRITE /\ NTok(last') = 3) =>
                     /\ Has(StoreAt(n)', Key(last'))
                     /\ StoreAt(n)'[Key(last')] = Value(last')
                     /\ SameExcept(StoreAt(n)', StoreAt(n), Key(last'))
               /\ (Cmd(last') = DELETE /\ Has(StoreAt(n), Key(last'))) =>
                     /\ ~Has(StoreAt(n)', Key(last'))
                     /\ SameExcept(StoreAt(n)', StoreAt(n), Key(last')) ]_vars

\* C17 witness: DELETE a was processed at depth 1; a is gone from the depth-1
\* store, which still holds another entry, and the root still holds a.
C17_Witness ==
    /\ IsLine(last) /\ Cmd(last) = DELETE /\ Key(last) = ka /\ last.depth = 1
    /\ Depth = 1
    /\ out = <<Prompt>>
    /\ ~Has(StoreAt(1), ka)
    /\ StoreAt(1) # EmptyMap
    /\ Has(store, ka)

\* A non-empty token without white space.
WellFormedKey(k) == k # Empty /\ \A i \in DOMAIN k : ~IsSpace(k[i])

\* C18 (as claimed): every key of every store at every depth is a non-empty
\* token without white space.
C18_KeysWellFormed ==
    \A d \in 0..Depth : \A k \in DOMAIN StoreAt(d) : WellFormedKey(k)

====
